---- MODULE Spec2Model ----
(***************************************************************************)
(* Audio event detection worker (python_workers/audio_event_detector.py). *)
(*                                                                         *)
(* Units.  The code works in float seconds obtained as ms / 1000 and       *)
(* start / SAMPLE_RATE.  The model keeps every time in exact integer       *)
(* milliseconds and every probability in exact thousandths, so a           *)
(* comparison in the model is the comparison of the code on the exact     *)
(* values.  A mean is kept as the pair (sum, count).                       *)
(***************************************************************************)
EXTENDS Integers, Sequences, FiniteSets, TLC

(***************************************************************************)
(* Bounds of the model and the input grids.                                *)
(***************************************************************************)
MaxLen == 3

Times == {0, 250, 800, 1290, 1310, 2590}

Probs == {600, 800, 900}

Thresholds == {700, 900}

WindowSizes == {250, 1000}

MergeGaps == {-300, 0, 300}

MinDurations == {500, 1500}

HopSizes == {250, 500}

\* len(audio) runs over the multiples of 1000 samples up to MaxAudioK * 1000.
MaxAudioK == 140

\* The classifiers the model is run with, each a pure function of a window.
Classifiers == {1, 2}

VARIABLES
  pc,                \* position in process / _postprocess_predictions
  mode,              \* which invocation of the Segment Builder is running
  config,            \* ModelConfig
  predictions,       \* list of (start, probability) tuples
  positive_windows,  \* list of (start, probability) tuples at or above threshold
  current_segment,   \* dict start / end / confidences
  segments,          \* closed segment dicts
  k,                 \* position of the loop over positive_windows[1:]
  j,                 \* position of the loop over segments
  result,            \* list of TimestampSegment
  detected_duration, \* sum of end - start over result
  output,            \* AudioDetectionResult.to_dict()
  outcome,           \* "none", "result" or "error"
  progress,          \* percents written by write_progress
  cur_idx,           \* history: indices of positive_windows absorbed by current_segment
  seg_idx,           \* history: the same, for each closed segment
  res_idx,           \* history: the same, for each TimestampSegment of result
  first_config,      \* the configuration of the first invocation
  first_result,      \* the result of the first invocation
  first_duration,    \* the detected duration of the first invocation
  audio_len,         \* len(audio), in samples
  using_gpu,         \* 'CUDAExecutionProvider' in model.get_providers()
  clf,               \* the classifier behind the inference session
  window_starts,     \* list(range(0, len(audio) - window_samples + 1, hop_samples))
  total_windows,     \* max(1, (len(audio) - window_samples) // hop_samples + 1)
  batch_idx,         \* position of the loop over the batches
  batches,           \* history: the batch_starts of each batch handed to the session
  batch_shapes,      \* history: the shape of each batch_input handed to the session
  request,           \* what the worker finds on stdin and on disk
  is_video,          \* the input file has a video extension
  has_run,           \* WorkerBase._has_run
  messages,          \* the result and error messages written to stdout, in order
  exit_code,         \* what run() returned or exited with; -1 while it runs
  raised,            \* the exception on its way to run(), "none" if there is none
  process_called,    \* process() was entered
  audio_loaded,      \* librosa.load returned
  session_inits,     \* the providers of each InferenceSession(...) call, in order
  total_duration,    \* len(audio) / SAMPLE_RATE
  manifest_kwargs,   \* the keyword arguments TrainingManifest is constructed with
  manifest,          \* the fields of the TrainingManifest instance
  manifest_dict,     \* TrainingManifest.to_dict()
  cancelled,         \* DownloadManager._cancelled
  cancel_at,         \* history: where run() stood when cancel() was called
  is_single,         \* the URL names a single video
  videos,            \* number of videos fetch_metadata returned
  playlist_name,     \* a playlist name is given (and not yet used as title)
  futures,           \* state of the _download_single call of each video
  completed,         \* the futures the as_completed loop has taken
  download_result,   \* the counts download_videos returns
  index_saved,       \* save_index was executed
  playlist_saved,    \* save_playlist was executed
  run_result         \* what DownloadManager.run() returned

vars == <<pc, mode, config, predictions, positive_windows, current_segment,
          segments, k, j, result, detected_duration, output, outcome, progress,
          cur_idx, seg_idx, res_idx, first_config, first_result, first_duration,
          audio_len, using_gpu, clf, window_starts, total_windows, batch_idx,
          batches, batch_shapes, request, is_video, has_run, messages, exit_code, raised,
          process_called, audio_loaded, session_inits, total_duration,
          manifest_kwargs, manifest, manifest_dict, cancelled, cancel_at,
          is_single, videos, playlist_name, futures, completed,
          download_result, index_saved, playlist_saved, run_result>>

infVars == <<audio_len, using_gpu, clf, window_starts, total_windows, batch_idx,
             batches, batch_shapes>>

runVars == <<request, is_video, has_run, messages, exit_code, process_called,
             audio_loaded, session_inits, total_duration>>

manVars == <<manifest_kwargs, manifest, manifest_dict>>

dlVars == <<cancelled, cancel_at, is_single, videos, playlist_name, futures,
            completed, download_result, index_saved, playlist_saved, run_result>>

\* What the Segment Builder and _run_inference leave alone unless they raise.
restVars == <<runVars, raised, manVars, dlVars>>

(***************************************************************************)
(* Helpers.                                                                *)
(***************************************************************************)
RECURSIVE SumSeq(_)
SumSeq(s) == IF s = <<>> THEN 0 ELSE Head(s) + SumSeq(Tail(s))

\* Python round(): to the nearest multiple of d, ties to even (n >= 0, d > 0).
RoundHalfEven(n, d) ==
  LET q == n \div d
      r == n % d
  IN  IF 2 * r < d THEN q
      ELSE IF 2 * r > d THEN q + 1
      ELSE IF q % 2 = 0 THEN q ELSE q + 1

\* round(x, 2) of a time in seconds: the nearest hundredth, here in ms.
Round2(ms) == 10 * RoundHalfEven(ms, 10)

\* round(x, 3) of a mean of probabilities: the nearest thousandth.
Round3(mean) == RoundHalfEven(mean.num, mean.den)

\* np.mean of a non-empty list.
Mean(xs) == [num |-> SumSeq(xs), den |-> Len(xs)]

MeanEq(a, b) == a.num * b.den = b.num * a.den

(***************************************************************************)
(* ModelConfig and the values _postprocess_predictions derives from it.    *)
(***************************************************************************)
MODEL_VERSION == "v1.0.0"

ModelConfig(w, h, thr, md, mg) ==
  [window_size_ms |-> w, hop_size_ms |-> h, confidence_threshold |-> thr,
   min_segment_duration_ms |-> md, merge_gap_ms |-> mg]

Threshold(cfg) == cfg.confidence_threshold

MinDuration(cfg) == cfg.min_segment_duration_ms

MergeGap(cfg) == cfg.merge_gap_ms

WindowDuration(cfg) == cfg.window_size_ms

(***************************************************************************)
(* _postprocess_predictions, piece by piece.                               *)
(***************************************************************************)
\* Step 1: p >= threshold.
IsPositiveReversed(p, threshold) == p <= threshold

IsPositiveAlways(p, threshold) == TRUE

IsPositive(p, threshold) == p >= threshold

PositiveWindows(preds, threshold) ==
  SelectSeq(preds, LAMBDA w : IsPositive(w[2], threshold))

\* if not positive_windows
NoPositivesNever(pw) == FALSE

NoPositives(pw) == pw = <<>>

\* A fresh segment dict for the window w.
OpenSegmentNoWindow(w, window_duration) ==
  [start |-> w[1], end |-> w[1], confidences |-> <<w[2]>>]

OpenSegment(w, window_duration) ==
  [start |-> w[1], end |-> w[1] + window_duration, confidences |-> <<w[2]>>]

\* start_time <= current_segment['end'] + merge_gap
MergeableStrict(cur, start_time, merge_gap) == start_time < cur.end + merge_gap

MergeableNoGap(cur, start_time, merge_gap) == start_time <= cur.end

MergeableNever(cur, start_time, merge_gap) == FALSE

Mergeable(cur, start_time, merge_gap) == start_time <= cur.end + merge_gap

\* The merge branch: move the end, append the probability.
ExtendSegmentKeepEnd(cur, w, window_duration) ==
  [cur EXCEPT !.confidences = Append(@, w[2])]

ExtendSegment(cur, w, window_duration) ==
  [cur EXCEPT !.end = w[1] + window_duration,
              !.confidences = Append(@, w[2])]

\* segments.append(current_segment), after the loop
CloseOpenSegmentDropped(segs, cur) == segs

CloseOpenSegment(segs, cur) == Append(segs, cur)

\* duration >= min_duration
KeepSegmentStrict(seg, min_duration) == seg.end - seg.start > min_duration

KeepSegmentReversed(seg, min_duration) == seg.end - seg.start <= min_duration

KeepSegment(seg, min_duration) == seg.end - seg.start >= min_duration

\* TimestampSegment(start_seconds, end_seconds, confidence, label)
TimestampSegmentLastConfidence(seg) ==
  [start_seconds |-> seg.start, end_seconds |-> seg.end,
   confidence |-> Mean(<<seg.confidences[Len(seg.confidences)]>>),
   label |-> "target_audio"]

TimestampSegmentEventLabel(seg) ==
  [start_seconds |-> seg.start, end_seconds |-> seg.end,
   confidence |-> Mean(seg.confidences),
   label |-> "target_event"]

TimestampSegment(seg) ==
  [start_seconds |-> seg.start, end_seconds |-> seg.end,
   confidence |-> Mean(seg.confidences),
   label |-> "target_audio"]

\* TimestampSegment.to_dict
SegmentToDict(s) ==
  [start_seconds |-> Round2(s.start_seconds),
   end_seconds |-> Round2(s.end_seconds),
   confidence |-> Round3(s.confidence),
   label |-> s.label]

\* sum(s.end_seconds - s.start_seconds for s in segments)
DetectedDuration(segs) ==
  SumSeq([i \in 1..Len(segs) |-> segs[i].end_seconds - segs[i].start_seconds])

\* AudioDetectionResult(...).to_dict()
ResultToDict(segs, duration, detected) ==
  [segments |-> [i \in 1..Len(segs) |-> SegmentToDict(segs[i])],
   total_duration_seconds |-> Round2(duration),
   detected_duration_seconds |-> Round2(detected),
   model_version |-> MODEL_VERSION]

(***************************************************************************)
(* Inputs of the Segment Builder.                                          *)
(***************************************************************************)
AscendingTimes(n) ==
  {ts \in [1..n -> Times] : \A i \in 1..(n - 1) : ts[i] < ts[i + 1]}

PredictionLists ==
  UNION {{[i \in 1..n |-> <<ts[i], ps[i]>>] :
            ts \in AscendingTimes(n), ps \in [1..n -> Probs]} : n \in 0..MaxLen}

Configs ==
  {ModelConfig(w, 250, thr, md, mg) :
     w \in WindowSizes, thr \in Thresholds, md \in MinDurations, mg \in MergeGaps}

\* Window starts off the 10 ms grid, as a hop_size_ms of 4 produces them.
FineTimes == {0, 4, 8, 1312, 2616}

FinePredictionLists ==
  UNION {{[i \in 1..n |-> <<ts[i], ps[i]>>] :
            ts \in {f \in [1..n -> FineTimes] :
                      \A i \in 1..(n - 1) : f[i] < f[i + 1]},
            ps \in [1..n -> Probs]} : n \in 0..MaxLen}

\* An exception on its way up the call stack: type(e).__name__ and str(e).
Exception(type, text) == [type |-> type, text |-> text]

NoException == Exception("none", "")

NoSegment == [start |-> 0, end |-> 0, confidences |-> <<>>]

NoOutput ==
  [segments |-> <<>>, total_duration_seconds |-> 0,
   detected_duration_seconds |-> 0, model_version |-> ""]

\* len(audio) / SAMPLE_RATE of the run the predictions come from.
TotalDuration == 180 * 1000

\* The working state of one invocation, before its first statement.
Fresh ==
  /\ positive_windows = <<>>
  /\ current_segment = NoSegment
  /\ segments = <<>>
  /\ k = 0
  /\ j = 0
  /\ result = <<>>
  /\ detected_duration = 0
  /\ output = NoOutput
  /\ outcome = "none"
  /\ cur_idx = <<>>
  /\ seg_idx = <<>>
  /\ res_idx = <<>>

\* No inference is part of the run.
NoInference ==
  /\ audio_len = 0
  /\ using_gpu = FALSE
  /\ clf = 1
  /\ window_starts = <<>>
  /\ total_windows = 0
  /\ batch_idx = 0
  /\ batches = <<>>
  /\ batch_shapes = <<>>

\* No TrainingManifest is part of the run.
NoManifest ==
  /\ manifest_kwargs = {}
  /\ manifest = <<>>
  /\ manifest_dict = <<>>

NoCounts == [successful |-> 0, cached |-> 0, failed |-> 0, total |-> 0]

\* No DownloadManager is part of the run.
NoDownload ==
  /\ cancelled = FALSE
  /\ cancel_at = "never"
  /\ is_single = FALSE
  /\ videos = 0
  /\ playlist_name = FALSE
  /\ futures = <<>>
  /\ completed = {}
  /\ download_result = NoCounts
  /\ index_saved = FALSE
  /\ playlist_saved = FALSE
  /\ run_result = "none"

\* The method is called directly: no WorkerBase.run() around it.
NoWorker ==
  /\ request = "ok"
  /\ is_video = FALSE
  /\ has_run = FALSE
  /\ messages = <<>>
  /\ exit_code = -1
  /\ raised = NoException
  /\ process_called = FALSE
  /\ audio_loaded = FALSE
  /\ session_inits = <<>>

Init ==
  /\ pc = "threshold"
  /\ mode = "first"
  /\ config \in Configs
  /\ predictions \in PredictionLists
  /\ progress = <<>>
  /\ first_config = config
  /\ first_result = <<>>
  /\ first_duration = 0
  /\ Fresh
  /\ NoInference
  /\ NoWorker
  /\ total_duration = TotalDuration
  /\ NoManifest
  /\ NoDownload

(***************************************************************************)
(* The steps of _postprocess_predictions and of the tail of process.       *)
(***************************************************************************)
\* positive_windows = [(t, p) for t, p in predictions if p >= threshold]
FilterByThreshold ==
  /\ pc = "threshold"
  /\ positive_windows' = PositiveWindows(predictions, Threshold(config))
  /\ pc' = "check_empty"
  /\ UNCHANGED <<mode, config, predictions, current_segment, segments, k, j,
                 result, detected_duration, output, outcome, progress,
                 cur_idx, seg_idx, res_idx,
                 first_config, first_result, first_duration, infVars,
                 restVars>>

\* if not positive_windows: return []
CheckEmpty ==
  /\ pc = "check_empty"
  /\ pc' = IF NoPositives(positive_windows) THEN "sum" ELSE "open"
  /\ UNCHANGED <<mode, config, predictions, positive_windows, current_segment,
                 segments, k, j, result, detected_duration, output, outcome,
                 progress, cur_idx, seg_idx, res_idx,
                 first_config, first_result, first_duration, infVars,
                 restVars>>

\* current_segment = {...positive_windows[0]...}; an empty list raises IndexError.
OpenFirst ==
  /\ pc = "open"
  /\ IF Len(positive_windows) = 0
       THEN /\ outcome' = "error"
            /\ raised' = Exception("IndexError", "list index out of range")
            /\ pc' = "done"
            /\ UNCHANGED <<current_segment, k, cur_idx>>
       ELSE /\ current_segment' =
                 OpenSegment(positive_windows[1], WindowDuration(config))
            /\ cur_idx' = <<1>>
            /\ k' = 2
            /\ pc' = "group"
            /\ UNCHANGED <<outcome, raised>>
  /\ UNCHANGED <<mode, config, predictions, positive_windows, segments, j,
                 result, detected_duration, output, progress, seg_idx, res_idx,
                 first_config, first_result, first_duration, infVars,
                 runVars, manVars, dlVars>>

\* One iteration of: for start_time, prob in positive_windows[1:]
GroupStep ==
  /\ pc = "group"
  /\ k <= Len(positive_windows)
  /\ LET w == positive_windows[k]
     IN  IF Mergeable(current_segment, w[1], MergeGap(config))
           THEN /\ current_segment' =
                     ExtendSegment(current_segment, w, WindowDuration(config))
                /\ cur_idx' = Append(cur_idx, k)
                /\ UNCHANGED <<segments, seg_idx>>
           ELSE /\ segments' = Append(segments, current_segment)
                /\ seg_idx' = Append(seg_idx, cur_idx)
                /\ current_segment' = OpenSegment(w, WindowDuration(config))
                /\ cur_idx' = <<k>>
  /\ k' = k + 1
  /\ UNCHANGED <<pc, mode, config, predictions, positive_windows, j, result,
                 detected_duration, output, outcome, progress, res_idx,
                 first_config, first_result, first_duration, infVars,
                 restVars>>

\* segments.append(current_segment), after the loop
GroupEnd ==
  /\ pc = "group"
  /\ k > Len(positive_windows)
  /\ segments' = CloseOpenSegment(segments, current_segment)
  /\ seg_idx' = Append(seg_idx, cur_idx)
  /\ j' = 1
  /\ pc' = "filter"
  /\ UNCHANGED <<mode, config, predictions, positive_windows, current_segment,
                 k, result, detected_duration, output, outcome, progress,
                 cur_idx, res_idx, first_config, first_result, first_duration, infVars,
                 restVars>>

\* One iteration of: for seg in segments
FilterStep ==
  /\ pc = "filter"
  /\ j <= Len(segments)
  /\ IF KeepSegment(segments[j], MinDuration(config))
       THEN /\ result' = Append(result, TimestampSegment(segments[j]))
            /\ res_idx' = Append(res_idx, seg_idx[j])
       ELSE UNCHANGED <<result, res_idx>>
  /\ j' = j + 1
  /\ UNCHANGED <<pc, mode, config, predictions, positive_windows,
                 current_segment, segments, k, detected_duration, output,
                 outcome, progress, cur_idx, seg_idx,
                 first_config, first_result, first_duration, infVars,
                 restVars>>

\* return result
ReturnResult ==
  /\ pc = "filter"
  /\ j > Len(segments)
  /\ pc' = "sum"
  /\ UNCHANGED <<mode, config, predictions, positive_windows, current_segment,
                 segments, k, j, result, detected_duration, output, outcome,
                 progress, cur_idx, seg_idx, res_idx,
                 first_config, first_result, first_duration, infVars,
                 restVars>>

\* detected_duration = sum(...)
SumDurations ==
  /\ pc = "sum"
  /\ detected_duration' = DetectedDuration(result)
  /\ pc' = "assemble"
  /\ UNCHANGED <<mode, config, predictions, positive_windows, current_segment,
                 segments, k, j, result, output, outcome, progress,
                 cur_idx, seg_idx, res_idx,
                 first_config, first_result, first_duration, infVars,
                 restVars>>

\* write_progress(100, "Complete"); return AudioDetectionResult(...).to_dict()
Assemble ==
  /\ pc = "assemble"
  /\ progress' = Append(progress, 100)
  /\ output' = ResultToDict(result, total_duration, detected_duration)
  /\ outcome' = "result"
  /\ pc' = "done"
  /\ UNCHANGED <<mode, config, predictions, positive_windows, current_segment,
                 segments, k, j, result, detected_duration,
                 cur_idx, seg_idx, res_idx,
                 first_config, first_result, first_duration, infVars,
                 restVars>>

(***************************************************************************)
(* A second invocation of the Segment Builder after a first one that       *)
(* returned: on the same predictions with a higher threshold, or on the    *)
(* (segment.start, 1.0) predictions of its own segments with merge gap 0.  *)
(***************************************************************************)
Restart ==
  /\ pc' = "threshold"
  /\ first_config' = config
  /\ first_result' = result
  /\ first_duration' = detected_duration
  /\ progress' = <<>>
  /\ positive_windows' = <<>>
  /\ current_segment' = NoSegment
  /\ segments' = <<>>
  /\ k' = 0
  /\ j' = 0
  /\ result' = <<>>
  /\ detected_duration' = 0
  /\ output' = NoOutput
  /\ outcome' = "none"
  /\ cur_idx' = <<>>
  /\ seg_idx' = <<>>
  /\ res_idx' = <<>>
  /\ UNCHANGED <<infVars, restVars>>

RunWithHigherThreshold ==
  /\ pc = "done"
  /\ mode = "first"
  /\ outcome = "result"
  /\ \E thr \in Thresholds :
       /\ thr > Threshold(config)
       /\ config' = [config EXCEPT !.confidence_threshold = thr]
  /\ mode' = "rethreshold"
  /\ UNCHANGED predictions
  /\ Restart

RunOnOwnSegments ==
  /\ pc = "done"
  /\ mode = "first"
  /\ outcome = "result"
  /\ predictions' = [i \in 1..Len(result) |-> <<result[i].start_seconds, 1000>>]
  /\ config' = [config EXCEPT !.merge_gap_ms = 0]
  /\ mode' = "mega"
  /\ Restart

Next ==
  \/ FilterByThreshold
  \/ CheckEmpty
  \/ OpenFirst
  \/ GroupStep
  \/ GroupEnd
  \/ FilterStep
  \/ ReturnResult
  \/ SumDurations
  \/ Assemble
  \/ RunWithHigherThreshold
  \/ RunOnOwnSegments

Spec == Init /\ [][Next]_vars

\* The predictions at or above the threshold, in order.
AtOrAbove(preds, threshold) == SelectSeq(preds, LAMBDA w : w[2] >= threshold)

\* A second invocation on predictions that differ from the first ones only
\* in predictions below the threshold: inserted, removed or changed.
RunWithOtherNegatives ==
  /\ pc = "done"
  /\ mode = "first"
  /\ outcome = "result"
  /\ \E other \in PredictionLists :
       /\ other # predictions
       /\ AtOrAbove(other, Threshold(config)) =
            AtOrAbove(predictions, Threshold(config))
       /\ predictions' = other
  /\ mode' = "negatives"
  /\ UNCHANGED config
  /\ Restart

NegativesNext ==
  \/ FilterByThreshold
  \/ CheckEmpty
  \/ OpenFirst
  \/ GroupStep
  \/ GroupEnd
  \/ FilterStep
  \/ ReturnResult
  \/ SumDurations
  \/ Assemble
  \/ RunWithOtherNegatives

SpecNegatives == Init /\ [][NegativesNext]_vars

\* The same invocations on predictions whose start times need rounding.
RoundingInit ==
  /\ pc = "threshold"
  /\ mode = "first"
  /\ config \in Configs
  /\ predictions \in FinePredictionLists
  /\ progress = <<>>
  /\ first_config = config
  /\ first_result = <<>>
  /\ first_duration = 0
  /\ Fresh
  /\ NoInference
  /\ NoWorker
  /\ total_duration = TotalDuration
  /\ NoManifest
  /\ NoDownload

SpecRounding == RoundingInit /\ [][Next]_vars

(***************************************************************************)
(* The documented example: a 180 s signal with two regions of positive     *)
(* windows, 12.5-18.25 s and 45.0-52.75 s, of mean probability 0.85 and    *)
(* 0.92, under the default configuration.                                  *)
(***************************************************************************)
ScenarioRegions ==
  <<[start |-> 12500, end |-> 18250, confidence |-> 850],
    [start |-> 45000, end |-> 52750, confidence |-> 920]>>

ScenarioWindowSizes == {500, 1000}

\* Probabilities of the windows of a region, alternating around its mean.
ScenarioSpreads == {0, 20, 50}

\* Probabilities of the windows outside the regions, all below 0.7.
ScenarioNegatives == {100, 600, 699}

\* The windows of a window_size_ms long window lying within region r.
InRegion(t, w, r) == r.start <= t /\ t + w <= r.end

\* One Prediction per window of the signal, at hop 250 ms: inside a region
\* mean - spread and mean + spread in turn, outside it the negative value.
ScenarioPredictions(w, spread, neg) ==
  [i \in 1..(((TotalDuration - w) \div 250) + 1) |->
     LET t == (i - 1) * 250
         sign == IF i % 2 = 0 THEN 1 ELSE -1
     IN  <<t, IF InRegion(t, w, ScenarioRegions[1])
                THEN ScenarioRegions[1].confidence + sign * spread
                ELSE IF InRegion(t, w, ScenarioRegions[2])
                       THEN ScenarioRegions[2].confidence + sign * spread
                       ELSE neg>>]

ScenarioInit ==
  /\ pc = "threshold"
  /\ mode = "first"
  /\ \E w \in ScenarioWindowSizes, spread \in ScenarioSpreads,
        neg \in ScenarioNegatives :
       /\ config = ModelConfig(w, 250, 700, 500, 300)
       /\ predictions = ScenarioPredictions(w, spread, neg)
  /\ progress = <<>>
  /\ first_config = config
  /\ first_result = <<>>
  /\ first_duration = 0
  /\ Fresh
  /\ NoInference
  /\ NoWorker
  /\ total_duration = TotalDuration
  /\ NoManifest
  /\ NoDownload

SpecScenario == ScenarioInit /\ [][Next]_vars

(***************************************************************************)
(* _run_inference: sliding windows, batches, one prediction per window.    *)
(***************************************************************************)
SAMPLE_RATE == 16000

\* hop_length of the mel spectrogram
HOP_LENGTH == 512

N_MELS == 128

GpuBatchSize == 32

CpuUpdateFrequency == 10

Max(a, b) == IF a >= b THEN a ELSE b

Min(a, b) == IF a <= b THEN a ELSE b

\* int(ms * sr / 1000)
MsToSamples(ms) == (ms * SAMPLE_RATE) \div 1000

WindowSamples(cfg) == MsToSamples(cfg.window_size_ms)

HopSamples(cfg) == MsToSamples(cfg.hop_size_ms)

\* batch_size = 32 if using_gpu else 1
BatchSize(gpu) == IF gpu THEN GpuBatchSize ELSE 1

\* update_frequency = batch_size if using_gpu else 10
UpdateFrequency(gpu) == IF gpu THEN BatchSize(gpu) ELSE CpuUpdateFrequency

\* max(1, (len(audio) - window_samples) // hop_samples + 1)
TotalWindows(len, window_samples, hop_samples) ==
  Max(1, ((len - window_samples) \div hop_samples) + 1)

\* list(range(0, stop, step)) for step > 0
RangeList(stop, step) ==
  IF stop <= 0 THEN <<>>
  ELSE [i \in 1..(((stop - 1) \div step) + 1) |-> (i - 1) * step]

WindowStartsFrameAligned(len, window_samples, hop_samples) ==
  RangeList(len - window_samples + 1, (hop_samples \div HOP_LENGTH) * HOP_LENGTH)

WindowStarts(len, window_samples, hop_samples) ==
  RangeList(len - window_samples + 1, hop_samples)

\* The time frames of the mel spectrogram of one window: librosa centres
\* the frames, which gives 1 + len(window) // hop_length of them.
TimeFramesFloor(window_samples) == window_samples \div HOP_LENGTH

TimeFrames(window_samples) == 1 + (window_samples \div HOP_LENGTH)

\* np.array(batch_features)[:, np.newaxis, :, :]: (batch, 1, n_mels, frames)
BatchInputShape(batch_starts, window_samples) ==
  <<Len(batch_starts), 1, N_MELS, TimeFrames(window_samples)>>

\* window_starts[batch_idx:batch_idx + batch_size]
BatchStartsOverlapping(starts, idx, batch_size) ==
  SubSeq(starts, Max(idx, 1), Min(idx + batch_size, Len(starts)))

BatchStarts(starts, idx, batch_size) ==
  SubSeq(starts, idx + 1, Min(idx + batch_size, Len(starts)))

\* The probability the session returns for the window at a start sample: the
\* classifier is a collaborator, here a fixed function of the window.
Classify(c, start) ==
  LET n == ((start \div 1000) * c + c) % 3
  IN  IF n = 0 THEN 600 ELSE IF n = 1 THEN 800 ELSE 900

\* (start / sr, float(prob)) for each window of the batch, in batch order
BatchPredictionsReversed(c, batch_starts) ==
  [i \in 1..Len(batch_starts) |->
     <<(batch_starts[Len(batch_starts) + 1 - i] * 1000) \div SAMPLE_RATE,
       Classify(c, batch_starts[Len(batch_starts) + 1 - i])>>]

BatchPredictions(c, batch_starts) ==
  [i \in 1..Len(batch_starts) |->
     <<(batch_starts[i] * 1000) \div SAMPLE_RATE, Classify(c, batch_starts[i])>>]

\* int((progress / total_windows) * 55) + 20
InferencePercentOfHundred(done, total) == (done * 100) \div total

InferencePercent(done, total) == ((done * 55) \div total) + 20

\* write_progress: max(0, min(100, percent))
ClampPercent(percent) == Max(0, Min(100, percent))

AudioLengths == {1000 * n : n \in 1..MaxAudioK}

InferenceConfigs ==
  {ModelConfig(w, h, 700, 500, 300) : w \in WindowSizes, h \in HopSizes}

\* No Segment Builder has run.
NoPostprocess ==
  /\ mode = "first"
  /\ positive_windows = <<>>
  /\ current_segment = NoSegment
  /\ segments = <<>>
  /\ k = 0
  /\ j = 0
  /\ result = <<>>
  /\ detected_duration = 0
  /\ output = NoOutput
  /\ cur_idx = <<>>
  /\ seg_idx = <<>>
  /\ res_idx = <<>>
  /\ first_result = <<>>
  /\ first_duration = 0

sbVars == <<mode, positive_windows, current_segment, segments, k, j, result,
            detected_duration, output, cur_idx, seg_idx, res_idx,
            first_config, first_result, first_duration>>

InferenceInit ==
  /\ pc = "inference"
  /\ config \in InferenceConfigs
  /\ first_config = config
  /\ audio_len \in AudioLengths
  /\ using_gpu \in BOOLEAN
  /\ clf \in Classifiers
  /\ predictions = <<>>
  /\ progress = <<>>
  /\ outcome = "none"
  /\ window_starts = <<>>
  /\ total_windows = 0
  /\ batch_idx = 0
  /\ batches = <<>>
  /\ batch_shapes = <<>>
  /\ NoPostprocess
  /\ NoWorker
  /\ total_duration = (audio_len * 1000) \div SAMPLE_RATE
  /\ NoManifest
  /\ NoDownload

\* Up to the loop: the sizes in samples, total_windows, window_starts.  A hop
\* of zero samples raises at the division.
PrepareBatches ==
  /\ pc = "inference"
  /\ IF HopSamples(config) = 0
       THEN /\ outcome' = "error"
            /\ raised' =
                 Exception("ZeroDivisionError", "integer division or modulo by zero")
            /\ pc' = "done"
            /\ UNCHANGED <<total_windows, window_starts>>
       ELSE /\ total_windows' =
                 TotalWindows(audio_len, WindowSamples(config), HopSamples(config))
            /\ window_starts' =
                 WindowStarts(audio_len, WindowSamples(config), HopSamples(config))
            /\ pc' = "batch"
            /\ UNCHANGED <<outcome, raised>>
  /\ batch_idx' = 0
  /\ batches' = <<>>
  /\ batch_shapes' = <<>>
  /\ UNCHANGED <<config, predictions, progress, audio_len, using_gpu, clf, sbVars,
                 runVars, manVars, dlVars>>

\* One iteration of: for batch_idx in range(0, len(window_starts), batch_size)
BatchStep ==
  /\ pc = "batch"
  /\ batch_idx < Len(window_starts)
  /\ LET batch_starts == BatchStarts(window_starts, batch_idx, BatchSize(using_gpu))
         done == batch_idx + Len(batch_starts)
     IN  /\ predictions' = predictions \o BatchPredictions(clf, batch_starts)
         /\ batches' = Append(batches, batch_starts)
         /\ batch_shapes' =
              Append(batch_shapes,
                     BatchInputShape(batch_starts, WindowSamples(config)))
         /\ progress' =
              IF done % UpdateFrequency(using_gpu) = 0 \/ done >= total_windows
                THEN Append(progress,
                            ClampPercent(InferencePercent(done, total_windows)))
                ELSE progress
  /\ batch_idx' = batch_idx + BatchSize(using_gpu)
  /\ UNCHANGED <<pc, config, outcome, audio_len, using_gpu, clf, window_starts,
                 total_windows, sbVars, restVars>>

\* return predictions
InferenceReturn ==
  /\ pc = "batch"
  /\ batch_idx >= Len(window_starts)
  /\ pc' = "inference_done"
  /\ UNCHANGED <<config, predictions, progress, outcome, infVars, sbVars,
                 restVars>>

InferenceNext ==
  \/ PrepareBatches
  \/ BatchStep
  \/ InferenceReturn

SpecInference == InferenceInit /\ [][InferenceNext]_vars

(***************************************************************************)
(* The worker: WorkerBase.run() around AudioEventDetector.validate_input   *)
(* and AudioEventDetector.process, which loads the audio and the model,    *)
(* runs _run_inference and _postprocess_predictions and assembles the      *)
(* result.                                                                 *)
(***************************************************************************)
\* What the worker finds on stdin and on disk.
Requests ==
  {"ok", "bad_json", "no_input_file", "no_model_path", "input_missing",
   "model_missing"}

\* len(audio) of the files a run may load, in samples.
PipelineLengths == {2000, 16000, 21000, 40000, 136000}

PipelineHopSizes == {0, 250, 500}

PipelineThresholds == {700, 1500}

\* The config record of a request: from_dict copies it unchecked.
PipelineMergeGaps == {-1000, 300}

PipelineConfigs ==
  {ModelConfig(w, h, thr, 500, mg) :
     w \in WindowSizes, h \in PipelineHopSizes, thr \in PipelineThresholds,
     mg \in PipelineMergeGaps}

\* {"type": "result", "data": data}
ResultMessageAsError(data) == [type |-> "error", data |-> data]

ResultMessage(data) == [type |-> "result", data |-> data]

\* {"type": "error", "message": message}
ErrorMessage(prefix, text) == [type |-> "error", message |-> <<prefix, text>>]

\* The except clauses of run(): f"Validation error: {e}" for a ValueError,
\* f"{type(e).__name__}: {e}" for any other Exception.
CaughtMessageEmptyResult(e) ==
  IF e.type = "ValueError"
    THEN ErrorMessage("Validation error", e.text)
    ELSE ResultMessage(NoOutput)

CaughtMessage(e) ==
  IF e.type = "ValueError"
    THEN ErrorMessage("Validation error", e.text)
    ELSE ErrorMessage(e.type, e.text)

\* What validate_input raises for a request, NoException if it returns.
ValidationErrorFieldsOnly(req) ==
  CASE req = "no_input_file" ->
         Exception("ValueError", "Missing required field: input_file")
    [] req = "no_model_path" ->
         Exception("ValueError", "Missing required field: model_path")
    [] OTHER -> NoException

ValidationError(req) ==
  CASE req = "no_input_file" ->
         Exception("ValueError", "Missing required field: input_file")
    [] req = "no_model_path" ->
         Exception("ValueError", "Missing required field: model_path")
    [] req = "input_missing" ->
         Exception("FileNotFoundError", "Input file not found")
    [] req = "model_missing" ->
         Exception("FileNotFoundError", "Model file not found")
    [] OTHER -> NoException

\* How loading the ONNX model ends: the providers of each InferenceSession
\* call and whether the session that results runs on CUDA. "raise" is a
\* call that raised.
ModelLoadsRetrying ==
  {[inits |-> <<"cuda">>, gpu |-> TRUE, ok |-> TRUE],
   [inits |-> <<"cpu">>, gpu |-> FALSE, ok |-> TRUE],
   [inits |-> <<"cuda", "cpu", "cpu">>, gpu |-> FALSE, ok |-> TRUE],
   [inits |-> <<"cuda", "cpu">>, gpu |-> FALSE, ok |-> FALSE]}

ModelLoads ==
  {[inits |-> <<"cuda">>, gpu |-> TRUE, ok |-> TRUE],
   [inits |-> <<"cuda">>, gpu |-> FALSE, ok |-> TRUE],
   [inits |-> <<"cuda", "cpu">>, gpu |-> FALSE, ok |-> TRUE],
   [inits |-> <<"cpu">>, gpu |-> FALSE, ok |-> TRUE],
   [inits |-> <<"cpu", "cpu">>, gpu |-> FALSE, ok |-> TRUE],
   [inits |-> <<"cuda", "cpu">>, gpu |-> FALSE, ok |-> FALSE],
   [inits |-> <<"cpu", "cpu">>, gpu |-> FALSE, ok |-> FALSE]}

PipelineInit ==
  /\ pc = "run"
  /\ request \in Requests
  /\ is_video \in BOOLEAN
  /\ config \in PipelineConfigs
  /\ first_config = config
  /\ has_run = FALSE
  /\ messages = <<>>
  /\ exit_code = -1
  /\ raised = NoException
  /\ process_called = FALSE
  /\ audio_loaded = FALSE
  /\ session_inits = <<>>
  /\ total_duration = 0
  /\ predictions = <<>>
  /\ progress = <<>>
  /\ first_result = <<>>
  /\ first_duration = 0
  /\ mode = "first"
  /\ Fresh
  /\ NoInference
  /\ NoManifest
  /\ NoDownload

\* if WorkerBase._has_run: the flag of the base class, one per process
AlreadyRunPerInstance(flag) == FALSE

AlreadyRun(flag) == flag

\* run(): the guard against a second run in the same process
RunEnter ==
  /\ pc = "run"
  /\ IF AlreadyRun(has_run)
       THEN /\ exit_code' = 1
            /\ pc' = "exited"
            /\ UNCHANGED has_run
       ELSE /\ has_run' = TRUE
            /\ pc' = "read_input"
            /\ UNCHANGED exit_code
  /\ UNCHANGED <<config, predictions, progress, outcome, sbVars, infVars,
                 request, is_video, messages, process_called, audio_loaded,
                 session_inits, total_duration, raised, manVars, dlVars>>

\* read_input(): a JSONDecodeError is reported and ends the process
ReadInput ==
  /\ pc = "read_input"
  /\ IF request = "bad_json"
       THEN /\ messages' = Append(messages, ErrorMessage("Invalid JSON input", ""))
            /\ exit_code' = 1
            /\ pc' = "exited"
       ELSE /\ pc' = "validate"
            /\ UNCHANGED <<messages, exit_code>>
  /\ UNCHANGED <<config, predictions, progress, outcome, sbVars, infVars,
                 request, is_video, has_run, process_called, audio_loaded,
                 session_inits, total_duration, raised, manVars, dlVars>>

\* self.validate_input(self.input_data)
ValidateInput ==
  /\ pc = "validate"
  /\ raised' = ValidationError(request)
  /\ pc' = IF raised' = NoException THEN "process" ELSE "catch"
  /\ UNCHANGED <<config, predictions, progress, outcome, sbVars, infVars,
                 runVars, manVars, dlVars>>

\* process(): the config is parsed, then write_progress(0, ...)
ProcessStart ==
  /\ pc = "process"
  /\ process_called' = TRUE
  /\ progress' = Append(progress, ClampPercent(0))
  /\ pc' = "video"
  /\ UNCHANGED <<config, predictions, outcome, sbVars, infVars, request,
                 is_video, has_run, messages, exit_code, audio_loaded,
                 session_inits, total_duration, raised, manVars, dlVars>>

\* _handle_video_input: write_progress(5, ...) for a video extension
HandleVideoInput ==
  /\ pc = "video"
  /\ progress' = IF is_video THEN Append(progress, ClampPercent(5)) ELSE progress
  /\ pc' = "load_audio"
  /\ UNCHANGED <<config, predictions, outcome, sbVars, infVars, restVars>>

\* librosa.load, total_duration, write_progress(10, ...); or librosa raises
LoadAudio ==
  /\ pc = "load_audio"
  /\ \/ /\ \E len \in PipelineLengths :
            /\ audio_len' = len
            /\ total_duration' = (len * 1000) \div SAMPLE_RATE
       /\ audio_loaded' = TRUE
       /\ progress' = Append(progress, ClampPercent(10))
       /\ pc' = "load_model"
       /\ UNCHANGED raised
     \/ /\ raised' = Exception("NoBackendError", "")
       /\ pc' = "catch"
       /\ UNCHANGED <<audio_len, total_duration, audio_loaded, progress>>
  /\ UNCHANGED <<config, predictions, outcome, sbVars, using_gpu, clf,
                 window_starts, total_windows, batch_idx, batches, batch_shapes,
                 request,
                 is_video, has_run, messages, exit_code, process_called,
                 session_inits, manVars, dlVars>>

\* The InferenceSession calls, then write_progress(20, ...); the CPU
\* fallback of the except clause may raise in its turn.
LoadModel ==
  /\ pc = "load_model"
  /\ \E load \in ModelLoads :
       /\ session_inits' = load.inits
       /\ IF load.ok
            THEN /\ using_gpu' = load.gpu
                 /\ clf' \in Classifiers
                 /\ progress' = Append(progress, ClampPercent(20))
                 /\ pc' = "inference"
                 /\ UNCHANGED raised
            ELSE /\ raised' = Exception("InvalidProtobuf", "Load model failed")
                 /\ pc' = "catch"
                 /\ UNCHANGED <<using_gpu, clf, progress>>
  /\ UNCHANGED <<config, predictions, outcome, sbVars, audio_len,
                 window_starts, total_windows, batch_idx, batches, batch_shapes,
                 request,
                 is_video, has_run, messages, exit_code, process_called,
                 audio_loaded, total_duration, manVars, dlVars>>

\* model.run raises on the batch the loop is at
BatchFail ==
  /\ pc = "batch"
  /\ batch_idx < Len(window_starts)
  /\ raised' = Exception("RuntimeException", "Non-zero status code returned while running node")
  /\ outcome' = "error"
  /\ pc' = "done"
  /\ UNCHANGED <<config, predictions, progress, sbVars, infVars, runVars,
                 manVars, dlVars>>

\* write_progress(75, ...) before _postprocess_predictions
PostprocessStart ==
  /\ pc = "inference_done"
  /\ progress' = Append(progress, ClampPercent(75))
  /\ pc' = "threshold"
  /\ UNCHANGED <<config, predictions, outcome, sbVars, infVars, restVars>>

\* write_output(result); return 0
RunFinish ==
  /\ pc = "done"
  /\ outcome = "result"
  /\ messages' = Append(messages, ResultMessage(output))
  /\ exit_code' = 0
  /\ pc' = "exited"
  /\ UNCHANGED <<config, predictions, progress, outcome, sbVars, infVars,
                 request, is_video, has_run, process_called, audio_loaded,
                 session_inits, total_duration, raised, manVars, dlVars>>

\* except ValueError / except Exception: write_error(...); return 1
RunCatch ==
  /\ pc = "catch" \/ (pc = "done" /\ outcome = "error")
  /\ messages' = Append(messages, CaughtMessage(raised))
  /\ exit_code' = 1
  /\ pc' = "exited"
  /\ UNCHANGED <<config, predictions, progress, outcome, sbVars, infVars,
                 request, is_video, has_run, process_called, audio_loaded,
                 session_inits, total_duration, raised, manVars, dlVars>>

\* run() is called once more in the same process, on this or another
\* worker instance and with whatever is on stdin: a new call, with nothing
\* emitted yet.
RunAgain ==
  /\ pc = "exited"
  /\ pc' = "run"
  /\ request' \in Requests
  /\ messages' = <<>>
  /\ progress' = <<>>
  /\ exit_code' = -1
  /\ raised' = NoException
  /\ process_called' = FALSE
  /\ audio_loaded' = FALSE
  /\ session_inits' = <<>>
  /\ UNCHANGED <<config, predictions, outcome, sbVars, infVars,
                 is_video, has_run, total_duration, manVars, dlVars>>

PipelineNext ==
  \/ RunEnter
  \/ ReadInput
  \/ ValidateInput
  \/ ProcessStart
  \/ HandleVideoInput
  \/ LoadAudio
  \/ LoadModel
  \/ PrepareBatches
  \/ BatchStep
  \/ BatchFail
  \/ InferenceReturn
  \/ PostprocessStart
  \/ FilterByThreshold
  \/ CheckEmpty
  \/ OpenFirst
  \/ GroupStep
  \/ GroupEnd
  \/ FilterStep
  \/ ReturnResult
  \/ SumDurations
  \/ Assemble
  \/ RunFinish
  \/ RunCatch
  \/ RunAgain

SpecPipeline == PipelineInit /\ [][PipelineNext]_vars

(***************************************************************************)
(* TrainingManifest: construction from keyword arguments, to_dict and      *)
(* from_dict.                                                              *)
(***************************************************************************)
\* The fields of the dataclass, in declaration order.
ManifestFields == {"positive_samples", "negative_samples", "hard_negatives"}

\* The keyword names a caller may pass.
OfferedNames == ManifestFields \cup {"hard_negative_samples"}

TrainingSamples ==
  {[file |-> "test.wav", label |-> "target_audio", source |-> "test"],
   [file |-> "other.wav", label |-> "other", source |-> "test"]}

SampleLists == {<<>>} \cup {<<x>> : x \in TrainingSamples}

\* TrainingSample.to_dict
SampleToDict(x) == [file |-> x.file, label |-> x.label, source |-> x.source]

\* TrainingSample(**s)
SampleFromDict(d) == [file |-> d.file, label |-> d.label, source |-> d.source]

\* The generated __init__: every field from its keyword or its default.
NewManifest(kwargs) ==
  [f \in ManifestFields |-> IF f \in DOMAIN kwargs THEN kwargs[f] ELSE <<>>]

\* TrainingManifest.to_dict
ManifestToDict(m) ==
  [f \in {"positive_samples", "negative_samples", "hard_negatives"} |->
     [i \in 1..Len(m[f]) |-> SampleToDict(m[f][i])]]

\* TrainingManifest.from_dict: data.get(key, []) for each field
ManifestFromDict(data) ==
  [f \in ManifestFields |->
     IF f \in DOMAIN data
       THEN [i \in 1..Len(data[f]) |-> SampleFromDict(data[f][i])]
       ELSE <<>>]

ManifestInit ==
  /\ pc = "construct"
  /\ manifest_kwargs \in UNION {[names -> SampleLists] : names \in SUBSET OfferedNames}
  /\ manifest = <<>>
  /\ manifest_dict = <<>>
  /\ mode = "first"
  /\ config = ModelConfig(1000, 250, 700, 500, 300)
  /\ first_config = config
  /\ predictions = <<>>
  /\ progress = <<>>
  /\ first_result = <<>>
  /\ first_duration = 0
  /\ Fresh
  /\ NoInference
  /\ NoWorker
  /\ total_duration = 0
  /\ NoDownload

\* TrainingManifest(**kwargs): a TypeError for a keyword that is no field
Construct ==
  /\ pc = "construct"
  /\ IF DOMAIN manifest_kwargs \subseteq ManifestFields
       THEN /\ manifest' = NewManifest(manifest_kwargs)
            /\ pc' = "constructed"
            /\ UNCHANGED raised
       ELSE /\ raised' = Exception("TypeError", "unexpected keyword argument")
            /\ pc' = "type_error"
            /\ UNCHANGED manifest
  /\ UNCHANGED <<config, predictions, progress, outcome, sbVars, infVars,
                 runVars, dlVars, manifest_kwargs, manifest_dict>>

\* data = manifest.to_dict()
ToDict ==
  /\ pc = "constructed"
  /\ manifest_dict' = ManifestToDict(manifest)
  /\ pc' = "serialized"
  /\ UNCHANGED <<config, predictions, progress, outcome, sbVars, infVars,
                 runVars, raised, dlVars, manifest_kwargs, manifest>>

\* TrainingManifest.from_dict(data)
FromDict ==
  /\ pc = "serialized"
  /\ manifest' = ManifestFromDict(manifest_dict)
  /\ pc' = "restored"
  /\ UNCHANGED <<config, predictions, progress, outcome, sbVars, infVars,
                 runVars, raised, dlVars, manifest_kwargs, manifest_dict>>

ManifestNext ==
  \/ Construct
  \/ ToDict
  \/ FromDict

SpecManifest == ManifestInit /\ [][ManifestNext]_vars

(***************************************************************************)
(* DownloadManager.run() and a second thread that calls cancel(). Every    *)
(* statement that reads or writes _cancelled is a step of its own, so the  *)
(* cancelling thread can come in between any two of them.                  *)
(***************************************************************************)
MaxVideos == 2

nonDlVars == <<config, predictions, progress, outcome, sbVars, infVars, runVars,
               raised, manVars>>

DownloadInit ==
  /\ pc = "dm_run"
  /\ cancelled \in BOOLEAN
  /\ cancel_at = "never"
  /\ is_single \in BOOLEAN
  /\ playlist_name \in BOOLEAN
  /\ videos = 0
  /\ futures = <<>>
  /\ completed = {}
  /\ download_result = NoCounts
  /\ index_saved = FALSE
  /\ playlist_saved = FALSE
  /\ run_result = "none"
  /\ mode = "first"
  /\ config = ModelConfig(1000, 250, 700, 500, 300)
  /\ first_config = config
  /\ predictions = <<>>
  /\ progress = <<>>
  /\ first_result = <<>>
  /\ first_duration = 0
  /\ Fresh
  /\ NoInference
  /\ NoWorker
  /\ total_duration = 0
  /\ NoManifest

\* cancel(): self._cancelled = True, from another thread while run() runs
Cancel ==
  /\ pc \notin {"dm_run", "dm_returned"}
  /\ cancel_at = "never"
  /\ cancelled' = TRUE
  /\ cancel_at' = pc
  /\ UNCHANGED <<pc, nonDlVars, is_single, videos, playlist_name, futures,
                 completed, download_result, index_saved, playlist_saved,
                 run_result>>

\* run(): self._cancelled = False
RunReset ==
  /\ pc = "dm_run"
  /\ cancelled' = FALSE
  /\ pc' = "dm_fetch"
  /\ UNCHANGED <<nonDlVars, cancel_at, is_single, videos, playlist_name,
                 futures, completed, download_result, index_saved,
                 playlist_saved, run_result>>

\* videos = self.fetch_metadata(url): one video for a single-video URL
FetchMetadata ==
  /\ pc = "dm_fetch"
  /\ videos' \in IF is_single THEN 0..1 ELSE 0..MaxVideos
  /\ pc' = "dm_check_videos"
  /\ UNCHANGED <<nonDlVars, cancelled, cancel_at, is_single, playlist_name,
                 futures, completed, download_result, index_saved,
                 playlist_saved, run_result>>

\* if not videos: return {'success': False, 'error': 'No videos found'}
CheckVideos ==
  /\ pc = "dm_check_videos"
  /\ IF videos = 0
       THEN /\ run_result' = "No videos found"
            /\ pc' = "dm_returned"
       ELSE /\ pc' = "dm_check_cancelled"
            /\ UNCHANGED run_result
  /\ UNCHANGED <<nonDlVars, cancelled, cancel_at, is_single, videos,
                 playlist_name, futures, completed, download_result,
                 index_saved, playlist_saved>>

\* if self._cancelled: return {'success': False, 'error': 'Cancelled'}
CheckCancelledBeforeDownload ==
  /\ pc = "dm_check_cancelled"
  /\ IF cancelled
       THEN /\ run_result' = "Cancelled"
            /\ pc' = "dm_returned"
       ELSE /\ pc' = "dm_title"
            /\ UNCHANGED run_result
  /\ UNCHANGED <<nonDlVars, cancelled, cancel_at, is_single, videos,
                 playlist_name, futures, completed, download_result,
                 index_saved, playlist_saved>>

\* A single video takes the playlist name as its title: playlist_name = None
UsePlaylistNameAsTitle ==
  /\ pc = "dm_title"
  /\ playlist_name' = IF is_single /\ videos = 1 THEN FALSE ELSE playlist_name
  /\ pc' = "dm_download"
  /\ UNCHANGED <<nonDlVars, cancelled, cancel_at, is_single, videos, futures,
                 completed, download_result, index_saved, playlist_saved,
                 run_result>>

\* download_videos(): self._cancelled = False
DownloadReset ==
  /\ pc = "dm_download"
  /\ cancelled' = FALSE
  /\ pc' = "dm_submit"
  /\ UNCHANGED <<nonDlVars, cancel_at, is_single, videos, playlist_name,
                 futures, completed, download_result, index_saved,
                 playlist_saved, run_result>>

\* executor.submit(self._download_single, ...) for every video
Submit ==
  /\ pc = "dm_submit"
  /\ futures' = [i \in 1..videos |-> "pending"]
  /\ completed' = {}
  /\ download_result' = [NoCounts EXCEPT !.total = videos]
  /\ pc' = "dm_collect"
  /\ UNCHANGED <<nonDlVars, cancelled, cancel_at, is_single, videos,
                 playlist_name, index_saved, playlist_saved, run_result>>

\* The result of one _download_single call: a cached file counts whatever
\* the flag says, then the flag is read, then the download succeeds or not.
SingleResults(flag) ==
  IF flag THEN {"cached", "cancelled"} ELSE {"cached", "success", "failed"}

\* _download_single in a pool thread
DownloadSingle ==
  /\ pc = "dm_collect"
  /\ \E i \in 1..Len(futures) :
       /\ futures[i] = "pending"
       /\ \E status \in SingleResults(cancelled) :
            futures' = [futures EXCEPT ![i] = status]
  /\ UNCHANGED <<pc, nonDlVars, cancelled, cancel_at, is_single, videos,
                 playlist_name, completed, download_result, index_saved,
                 playlist_saved, run_result>>

\* The counts after future.result() gave status.
Tally(counts, status) ==
  CASE status = "cached" -> [counts EXCEPT !.cached = @ + 1]
    [] status = "success" -> [counts EXCEPT !.successful = @ + 1]
    [] OTHER -> [counts EXCEPT !.failed = @ + 1]

\* One iteration of: for future in as_completed(futures)
CollectStep ==
  /\ pc = "dm_collect"
  /\ \E i \in 1..Len(futures) :
       /\ futures[i] # "pending"
       /\ i \notin completed
       /\ IF cancelled
            THEN /\ futures' = [n \in 1..Len(futures) |->
                                 IF futures[n] = "pending" THEN "not_run"
                                 ELSE futures[n]]
                 /\ pc' = "dm_download_return"
                 /\ UNCHANGED <<completed, download_result>>
            ELSE /\ download_result' = Tally(download_result, futures[i])
                 /\ completed' = completed \cup {i}
                 /\ UNCHANGED <<pc, futures>>
  /\ UNCHANGED <<nonDlVars, cancelled, cancel_at, is_single, videos,
                 playlist_name, index_saved, playlist_saved, run_result>>

\* as_completed is exhausted: the loop and the with block end
CollectEnd ==
  /\ pc = "dm_collect"
  /\ completed = 1..Len(futures)
  /\ pc' = "dm_download_return"
  /\ UNCHANGED <<nonDlVars, cancelled, cancel_at, is_single, videos,
                 playlist_name, futures, completed, download_result,
                 index_saved, playlist_saved, run_result>>

\* return {...} of download_videos
DownloadReturn ==
  /\ pc = "dm_download_return"
  /\ pc' = "dm_check_cancelled_after"
  /\ UNCHANGED <<nonDlVars, cancelled, cancel_at, is_single, videos,
                 playlist_name, futures, completed, download_result,
                 index_saved, playlist_saved, run_result>>

\* if self._cancelled: return {'success': False, 'error': 'Cancelled'}
CheckCancelledAfterDownload ==
  /\ pc = "dm_check_cancelled_after"
  /\ IF cancelled
       THEN /\ run_result' = "Cancelled"
            /\ pc' = "dm_returned"
       ELSE /\ pc' = "dm_save_index"
            /\ UNCHANGED run_result
  /\ UNCHANGED <<nonDlVars, cancelled, cancel_at, is_single, videos,
                 playlist_name, futures, completed, download_result,
                 index_saved, playlist_saved>>

\* new_index = self.build_index(videos); self.save_index(new_index)
SaveIndex ==
  /\ pc = "dm_save_index"
  /\ index_saved' = TRUE
  /\ pc' = "dm_save_playlist"
  /\ UNCHANGED <<nonDlVars, cancelled, cancel_at, is_single, videos,
                 playlist_name, futures, completed, download_result,
                 playlist_saved, run_result>>

\* if playlist_name: self.save_playlist(...); return {'success': True, ...}
SavePlaylistAndReturn ==
  /\ pc = "dm_save_playlist"
  /\ playlist_saved' = playlist_name
  /\ run_result' = "success"
  /\ pc' = "dm_returned"
  /\ UNCHANGED <<nonDlVars, cancelled, cancel_at, is_single, videos,
                 playlist_name, futures, completed, download_result,
                 index_saved>>

DownloadNext ==
  \/ Cancel
  \/ RunReset
  \/ FetchMetadata
  \/ CheckVideos
  \/ CheckCancelledBeforeDownload
  \/ UsePlaylistNameAsTitle
  \/ DownloadReset
  \/ Submit
  \/ DownloadSingle
  \/ CollectStep
  \/ CollectEnd
  \/ DownloadReturn
  \/ CheckCancelledAfterDownload
  \/ SaveIndex
  \/ SavePlaylistAndReturn

SpecDownload == DownloadInit /\ [][DownloadNext]_vars

(***************************************************************************)
(* Properties of _run_inference.                                           *)
(***************************************************************************)
\* C10 as claimed: a signal of L >= 1 samples gives exactly
\* max(1, floor((L - W) / H) + 1) classified windows, one prediction each,
\* so a signal shorter than one window still gives one prediction.
C10_WindowCount ==
  pc = "inference_done" =>
    Len(predictions) =
      Max(1, ((audio_len - WindowSamples(config)) \div HopSamples(config)) + 1)

\* The windows of all batches, in the order the session saw them.
RECURSIVE Flatten(_)
Flatten(bs) ==
  IF bs = <<>> THEN <<>> ELSE Head(bs) \o Flatten(Tail(bs))

\* The Prediction of one window classified alone.
AlonePrediction(c, start) == BatchPredictions(c, <<start>>)[1]

\* C11: batch invariance. The Prediction list _run_inference returns is, entry
\* by entry and in window order, what classifying each window alone gives,
\* whichever batch size the backend selects; the batches are contiguous slices
\* of the window list in window order, every window is in exactly one batch,
\* no batch is empty or longer than batch_size, and only the last one may be
\* shorter than batch_size.
C11_BatchInvariance ==
  pc = "inference_done" =>
    /\ predictions =
         [i \in 1..Len(window_starts) |-> AlonePrediction(clf, window_starts[i])]
    /\ Flatten(batches) = window_starts
    /\ \A b \in 1..Len(batches) :
         /\ Len(batches[b]) \in 1..BatchSize(using_gpu)
         /\ b < Len(batches) => Len(batches[b]) = BatchSize(using_gpu)

\* A GPU run over more windows than one batch holds, with a short last batch.
C11_Witness ==
  /\ pc = "inference_done"
  /\ using_gpu
  /\ Len(batches) = 2
  /\ Len(batches[2]) \in 1..(GpuBatchSize - 1)
  /\ \E i, i2 \in 1..Len(predictions) : predictions[i][2] # predictions[i2][2]

(***************************************************************************)
(* Properties of the Segment Builder.                                      *)
(***************************************************************************)
Grouped == {"filter", "sum", "assemble", "done"}

Returned == {"sum", "assemble", "done"}

StartOf(w) == w[1]

ProbOf(w) == w[2]

Spans(segs) ==
  {<<segs[i].start_seconds, segs[i].end_seconds>> : i \in 1..Len(segs)}

\* The loop is about to look at positive_windows[k].
AtWindow == pc = "group" /\ k <= Len(positive_windows)

MergedStep ==
  /\ segments' = segments
  /\ current_segment'.start = current_segment.start
  /\ current_segment'.end = StartOf(positive_windows[k]) + WindowDuration(config)

SplitStep ==
  /\ segments' = Append(segments, current_segment)
  /\ current_segment'.start = StartOf(positive_windows[k])
  /\ current_segment'.end = StartOf(positive_windows[k]) + WindowDuration(config)

GapExample ==
  (/\ pc \in Grouped
   /\ WindowDuration(config) = 1000
   /\ MergeGap(config) = 300
   /\ Len(positive_windows) = 2
   /\ StartOf(positive_windows[1]) = 0)
  => /\ StartOf(positive_windows[2]) = 1290 => Len(segments) = 1
     /\ StartOf(positive_windows[2]) = 1310 => Len(segments) = 2

\* C1: a positive window at t met while a segment is open is merged into it
\* exactly when t <= current.end + merge_gap (the bound included), where
\* current.end was set by the window absorbed last; otherwise the open
\* segment is closed and a new one opens at t.  With a 1.0 s window and a
\* 0.3 s gap, positives at 0 and 1.29 s give one segment, at 0 and 1.31 s two.
C1_GapRule ==
  /\ [][AtWindow =>
          /\ current_segment.end =
               StartOf(positive_windows[k - 1]) + WindowDuration(config)
          /\ StartOf(positive_windows[k]) <=
               current_segment.end + MergeGap(config) => MergedStep
          /\ StartOf(positive_windows[k]) >
               current_segment.end + MergeGap(config) => SplitStep]_vars
  /\ []GapExample

C1_Witness ==
  /\ pc = "filter"
  /\ WindowDuration(config) = 1000
  /\ MergeGap(config) = 300
  /\ Len(positive_windows) = 3
  /\ StartOf(positive_windows[2]) = 1290
  /\ StartOf(positive_windows[3]) = 2590
  /\ Len(segments) = 1

C3_RunMergesToOne ==
  (/\ pc \in Grouped
   /\ Len(positive_windows) >= 1
   /\ \A i \in 1..(Len(positive_windows) - 1) :
        StartOf(positive_windows[i + 1]) <=
          StartOf(positive_windows[i]) + WindowDuration(config) + MergeGap(config))
  => /\ Len(segments) = 1
     /\ segments[1].start = StartOf(positive_windows[1])
     /\ segments[1].end =
          StartOf(positive_windows[Len(positive_windows)]) + WindowDuration(config)

\* Three windows in one segment, no two of them touching.
C3_Witness ==
  /\ pc = "filter"
  /\ Len(positive_windows) >= 3
  /\ \A i \in 1..(Len(positive_windows) - 1) :
       /\ StartOf(positive_windows[i + 1]) >
            StartOf(positive_windows[i]) + WindowDuration(config)
       /\ StartOf(positive_windows[i + 1]) <=
            StartOf(positive_windows[i]) + WindowDuration(config) + MergeGap(config)
  /\ Len(segments) = 1

\* C4: a closed segment is in the output exactly when end - start >=
\* min_duration, the output keeps the order of the closed segments, and a
\* segment of one window shorter than min_duration is not in the output.
C4_MinDurationFilter ==
  pc \in Returned =>
    /\ \A i \in 1..Len(result) :
         result[i].end_seconds - result[i].start_seconds >= MinDuration(config)
    /\ \A s \in 1..Len(segments) :
         (segments[s].end - segments[s].start >= MinDuration(config))
           <=> <<segments[s].start, segments[s].end>> \in Spans(result)
    /\ \A a, b \in 1..Len(result) :
         a < b => \E x, y \in 1..Len(segments) :
                    /\ x < y
                    /\ segments[x].start = result[a].start_seconds
                    /\ segments[y].start = result[b].start_seconds
    /\ \A s \in 1..Len(segments) :
         (Len(segments[s].confidences) = 1
            /\ WindowDuration(config) < MinDuration(config))
           => \A i \in 1..Len(result) :
                result[i].start_seconds # segments[s].start

\* One segment of exactly min_duration kept, one single short window dropped.
C4_Witness ==
  /\ pc = "done"
  /\ WindowDuration(config) < MinDuration(config)
  /\ \E s \in 1..Len(segments) : Len(segments[s].confidences) = 1
  /\ \E i \in 1..Len(result) :
       result[i].end_seconds - result[i].start_seconds = MinDuration(config)

AbsorbedProbs(idx) == [n \in 1..Len(idx) |-> ProbOf(positive_windows[idx[n]])]

\* C5: the confidence of an output segment is the arithmetic mean of the
\* probabilities of the windows absorbed into it, which are the positive
\* windows from its start to its last window, and of no others.
C5_ConfidenceIsMean ==
  \A i \in 1..Len(result) :
    /\ MeanEq(result[i].confidence, Mean(AbsorbedProbs(res_idx[i])))
    /\ {res_idx[i][n] : n \in 1..Len(res_idx[i])} =
         {n \in 1..Len(positive_windows) :
            /\ result[i].start_seconds <= StartOf(positive_windows[n])
            /\ StartOf(positive_windows[n]) + WindowDuration(config)
                 <= result[i].end_seconds}

C5_Witness ==
  /\ pc = "done"
  /\ mode = "first"
  /\ Len(result) = 2
  /\ \E i \in 1..Len(result) :
       /\ Len(res_idx[i]) = 2
       /\ ProbOf(positive_windows[res_idx[i][1]]) #
            ProbOf(positive_windows[res_idx[i][2]])

AllNegative ==
  \A i \in 1..Len(predictions) : ProbOf(predictions[i]) < Threshold(config)

\* C6: with no prediction at or above the threshold (none at all included)
\* the run succeeds with segments = [] and detected_duration_seconds = 0;
\* the Segment Builder never raises.
C6_EmptyIsSuccess ==
  /\ outcome # "error"
  /\ (pc = "done" /\ AllNegative) =>
       /\ outcome = "result"
       /\ output.segments = <<>>
       /\ output.detected_duration_seconds = 0

C6_Witness ==
  /\ pc = "done"
  /\ Len(predictions) >= 2
  /\ AllNegative
  /\ outcome = "result"

\* C7 as claimed: a higher threshold never gives more output segments.
C7_CountMonotone ==
  (pc = "done" /\ mode = "rethreshold") => Len(result) <= Len(first_result)

\* C7 amended: every output segment at the higher threshold lies within an
\* output segment at the lower threshold; their number may grow, since a
\* window that is no longer positive may split a segment in two.
C7_SegmentsRefine ==
  (pc = "done" /\ mode = "rethreshold") =>
    \A i \in 1..Len(result) : \E f \in 1..Len(first_result) :
      /\ first_result[f].start_seconds <= result[i].start_seconds
      /\ result[i].end_seconds <= first_result[f].end_seconds

C7_Witness ==
  /\ pc = "done"
  /\ mode = "rethreshold"
  /\ Len(first_result) = 1
  /\ Len(result) = 2

\* C8: for merge_gap >= 0, a higher threshold never gives a larger sum of
\* end - start over the output segments.
C8_DurationMonotone ==
  (pc = "done" /\ mode = "rethreshold" /\ MergeGap(config) >= 0) =>
    detected_duration <= first_duration

C8_Witness ==
  /\ pc = "done"
  /\ mode = "rethreshold"
  /\ MergeGap(config) >= 0
  /\ 0 < detected_duration
  /\ detected_duration < first_duration

Labels == {output.segments[i].label : i \in 1..Len(output.segments)}

\* C13 as stated: every reported segment is labelled "target_event".
C13_LabelTargetEvent ==
  (pc = "done" /\ outcome = "result") => Labels \subseteq {"target_event"}

\* C13: every segment of every result carries the one fixed label
\* "target_audio", in the TimestampSegment and in its serialized form.
C13_LabelTargetAudio ==
  (pc = "done" /\ outcome = "result") =>
    /\ \A i \in 1..Len(result) : result[i].label = "target_audio"
    /\ Labels \subseteq {"target_audio"}
    /\ Len(output.segments) = Len(result)

C13_Witness ==
  /\ pc = "done"
  /\ outcome = "result"
  /\ Len(output.segments) = 2
  /\ Labels = {"target_audio"}

\* The sum of (end_seconds - start_seconds) over the serialized segments.
ReportedSum ==
  SumSeq([i \in 1..Len(output.segments) |->
            output.segments[i].end_seconds - output.segments[i].start_seconds])

\* C12 as stated: the reported detected_duration_seconds is the sum of
\* (end_seconds - start_seconds) over the reported, 2-decimal segment bounds.
C12_SumOfReported ==
  (pc = "done" /\ outcome = "result") =>
    output.detected_duration_seconds = ReportedSum

\* What the code reports instead: the unrounded sum, rounded once.
C12_RoundedSum ==
  (pc = "done" /\ outcome = "result") =>
    output.detected_duration_seconds = Round2(DetectedDuration(result))

\* The serialized form of a region of the documented example.
ScenarioSegment(r) ==
  [start_seconds |-> r.start, end_seconds |-> r.end,
   confidence |-> r.confidence, label |-> "target_audio"]

\* C14: on the 180.0 s signal whose windows at or above 0.7 form the two
\* runs 12.5-18.25 s and 45.0-52.75 s with mean probabilities 0.85 and 0.92,
\* with min_segment_duration_ms = 500 and merge_gap_ms = 300, the output has
\* exactly these two segments, total_duration_seconds = 180.0 and
\* detected_duration_seconds = 13.5.
C14_Scenario ==
  (pc = "done" /\ mode = "first") =>
    /\ outcome = "result"
    /\ output.segments =
         <<ScenarioSegment(ScenarioRegions[1]), ScenarioSegment(ScenarioRegions[2])>>
    /\ output.total_duration_seconds = 180 * 1000
    /\ output.detected_duration_seconds = 13500

C14_Witness ==
  /\ pc = "done"
  /\ mode = "first"
  /\ Len(output.segments) = 2
  /\ Len(predictions) = 717
  /\ \E i \in 1..Len(predictions) : predictions[i][2] = 870
  /\ \E i \in 1..Len(predictions) : predictions[i][2] = 699

(***************************************************************************)
(* Properties of the worker.                                               *)
(***************************************************************************)
\* The grouping loop as a function: the segments of the positive windows
\* from the i-th on, cur being the open segment.
RECURSIVE GroupWindows(_, _, _, _, _)
GroupWindows(pw, cur, i, window_duration, merge_gap) ==
  IF i > Len(pw)
    THEN <<cur>>
    ELSE IF Mergeable(cur, pw[i][1], merge_gap)
           THEN GroupWindows(pw, ExtendSegment(cur, pw[i], window_duration),
                             i + 1, window_duration, merge_gap)
           ELSE <<cur>> \o GroupWindows(pw, OpenSegment(pw[i], window_duration),
                                        i + 1, window_duration, merge_gap)

\* _postprocess_predictions as a function of its two arguments.
Postprocess(preds, cfg) ==
  LET pw == PositiveWindows(preds, Threshold(cfg))
      segs == IF NoPositives(pw)
                THEN <<>>
                ELSE GroupWindows(pw, OpenSegment(pw[1], WindowDuration(cfg)), 2,
                                  WindowDuration(cfg), MergeGap(cfg))
      kept == SelectSeq(segs, LAMBDA seg : KeepSegment(seg, MinDuration(cfg)))
  IN  [i \in 1..Len(kept) |-> TimestampSegment(kept[i])]

\* The serialized result as a function of the audio length, the config and
\* the classifier alone.
ExpectedOutput(len, cfg, c) ==
  LET starts == WindowStarts(len, WindowSamples(cfg), HopSamples(cfg))
      preds == [i \in 1..Len(starts) |-> AlonePrediction(c, starts[i])]
      segs == Postprocess(preds, cfg)
  IN  ResultToDict(segs, (len * 1000) \div SAMPLE_RATE, DetectedDuration(segs))

\* The notifications process() emits before _run_inference.
ProgressHead == IF is_video THEN <<0, 5, 10, 20>> ELSE <<0, 10, 20>>

\* C15: the progress percentages of one run never decrease and lie in
\* [0, 100]; they start 0, (5 for a video,) 10, 20; those emitted during
\* inference lie in [20, 75]; a run that returns 0 has emitted 100 last; and
\* the result it writes is a function of the audio, the config and the
\* classifier, whatever notifications the backend and the input made it emit.
C15_Progress ==
  /\ \A i \in 1..Len(progress) : progress[i] \in 0..100
  /\ \A i \in 1..(Len(progress) - 1) : progress[i] <= progress[i + 1]
  /\ \A i \in 1..Min(Len(progress), Len(ProgressHead)) :
       progress[i] = ProgressHead[i]
  /\ pc \in {"batch", "inference_done"} =>
       \A i \in (Len(ProgressHead) + 1)..Len(progress) : progress[i] \in 20..75
  /\ exit_code = 0 =>
       /\ progress[Len(progress)] = 100
       /\ progress[Len(progress) - 1] = 75
       /\ messages = <<ResultMessage(ExpectedOutput(audio_len, config, clf))>>

\* A video run on the CPU that reported several batches and found segments.
C15_Witness ==
  /\ pc = "exited"
  /\ exit_code = 0
  /\ is_video
  /\ ~using_gpu
  /\ Len(progress) >= Len(ProgressHead) + 4
  /\ \E i \in 1..Len(progress) : progress[i] \in 21..74
  /\ Len(messages[1].data.segments) >= 2

\* The request does not pass validate_input.
InvalidRequest ==
  request \in {"no_input_file", "no_model_path", "input_missing", "model_missing"}

ErrorMessages == SelectSeq(messages, LAMBDA m : m.type = "error")

ResultMessages == SelectSeq(messages, LAMBDA m : m.type = "result")

\* C16: when input_file or model_path is absent from the input, or either
\* named file does not exist, process() is never entered, no progress
\* notification and no result message is emitted, and the call ends with
\* exactly one error message and exit code 1.
C16_ValidationStops ==
  InvalidRequest =>
    /\ ~process_called
    /\ ~audio_loaded
    /\ session_inits = <<>>
    /\ progress = <<>>
    /\ ResultMessages = <<>>
    /\ exit_code # 0
    /\ (pc = "exited" /\ raised # NoException) =>
         /\ exit_code = 1
         /\ messages = <<CaughtMessage(ValidationError(request))>>
         /\ Len(ErrorMessages) = 1

C16_Witness ==
  /\ request = "model_missing"
  /\ pc = "exited"
  /\ exit_code = 1
  /\ messages = <<ErrorMessage("FileNotFoundError", "Model file not found")>>

\* A configuration record outside the documented ranges.
InvalidConfig(cfg) ==
  \/ cfg.hop_size_ms <= 0
  \/ cfg.window_size_ms <= 0
  \/ cfg.confidence_threshold \notin 0..1000

\* C17 as stated: with an invalid configuration record no audio is loaded,
\* no classifier is initialised, no progress notification is emitted and no
\* result message is produced.
C17_InvalidConfigRejected ==
  InvalidConfig(config) =>
    /\ ~audio_loaded
    /\ session_inits = <<>>
    /\ progress = <<>>
    /\ ResultMessages = <<>>

\* What the code does with hop_size_ms = 0: the division by hop_samples in
\* _run_inference raises after the audio and the model were loaded and three
\* notifications were emitted.
C17_HopZeroFailsLate ==
  (config.hop_size_ms = 0 /\ pc = "exited" /\ process_called /\ audio_loaded
     /\ raised.type # "InvalidProtobuf") =>
    /\ raised.type = "ZeroDivisionError"
    /\ session_inits # <<>>
    /\ SubSeq(progress, Len(progress) - 1, Len(progress)) = <<10, 20>>
    /\ exit_code = 1

\* model.run raised on some batch of this call.
ClassifierFailed == raised.type = "RuntimeException"

\* C18: once the classifier has raised on a batch, first or later, the call
\* never reaches post-processing and never writes a result: it ends with
\* one error message that names the exception and carries its text, and
\* with exit code 1.
C18_ClassifierErrorIsTerminal ==
  ClassifierFailed =>
    /\ pc \in {"done", "exited"}
    /\ outcome = "error"
    /\ positive_windows = <<>> /\ result = <<>> /\ output = NoOutput
    /\ ResultMessages = <<>>
    /\ exit_code # 0
    /\ pc = "exited" =>
         /\ exit_code = 1
         /\ messages = <<ErrorMessage(raised.type, raised.text)>>
         /\ raised.text # ""

\* The second GPU batch fails after a first one that classified windows at
\* or above the threshold.
C18_Witness ==
  /\ ClassifierFailed
  /\ pc = "exited"
  /\ using_gpu
  /\ Len(batches) = 1
  /\ Len(predictions) = GpuBatchSize
  /\ PositiveWindows(predictions, Threshold(config)) # <<>>
  /\ Len(ErrorMessages) = 1

\* C19: a call of run() emits at most one terminal message, a result or an
\* error and never both; a result message is emitted only after
\* validate_input and process have returned without raising, it carries
\* what process returned, and run() then returns 0; whenever an error
\* message is emitted the call returns or exits with 1.
C19_OutputProtocol ==
  /\ Len(messages) <= 1
  /\ Len(ResultMessages) + Len(ErrorMessages) = Len(messages)
  /\ ResultMessages # <<>> =>
       /\ request = "ok"
       /\ process_called
       /\ raised = NoException
       /\ outcome = "result"
       /\ messages = <<ResultMessage(output)>>
       /\ pc = "exited"
       /\ exit_code = 0
  /\ ErrorMessages # <<>> => (pc = "exited" /\ exit_code = 1)
  /\ exit_code = 0 => ResultMessages # <<>>
  /\ pc = "exited" <=> exit_code \in {0, 1}

C19_Witness ==
  /\ pc = "exited"
  /\ exit_code = 0
  /\ using_gpu
  /\ Len(ResultMessages) = 1
  /\ ErrorMessages = <<>>
  /\ Len(ResultMessages[1].data.segments) >= 1

(***************************************************************************)
(* Properties of TrainingManifest.                                         *)
(***************************************************************************)
\* C20 as stated: the manifest has the attribute hard_negative_samples and
\* not hard_negatives, the constructor accepts the keyword
\* hard_negative_samples, and to_dict() has the key hard_negative_samples
\* and not hard_negatives.
C20_HardNegativeSamples ==
  /\ pc \in {"constructed", "serialized", "restored"} =>
       /\ "hard_negative_samples" \in DOMAIN manifest
       /\ "hard_negatives" \notin DOMAIN manifest
  /\ pc = "type_error" => "hard_negative_samples" \notin DOMAIN manifest_kwargs
  /\ pc \in {"serialized", "restored"} =>
       /\ "hard_negative_samples" \in DOMAIN manifest_dict
       /\ "hard_negatives" \notin DOMAIN manifest_dict

\* What the code does: the field, the keyword and the key are all
\* hard_negatives, and a round trip through to_dict and from_dict gives the
\* manifest back.
C20_HardNegatives ==
  /\ pc \in {"constructed", "serialized", "restored"} =>
       /\ DOMAIN manifest = ManifestFields
       /\ manifest = NewManifest(manifest_kwargs)
  /\ pc # "construct" =>
       (pc = "type_error" <=> "hard_negative_samples" \in DOMAIN manifest_kwargs)
  /\ pc \in {"serialized", "restored"} => DOMAIN manifest_dict = ManifestFields

(***************************************************************************)
(* Further properties of the Segment Builder.                              *)
(***************************************************************************)
\* The probabilities the closed segments absorbed, segment after segment.
ClosedConfidences == Flatten([i \in 1..Len(segments) |-> segments[i].confidences])

\* The run of positive windows from..to as a closed segment dict.
RunSegment(from, to) ==
  [start |-> StartOf(positive_windows[from]),
   end |-> StartOf(positive_windows[to]) + WindowDuration(config),
   confidences |-> [n \in 1..(to - from + 1) |->
                      ProbOf(positive_windows[from + n - 1])]]

\* C21: before the minimum-duration filter the closed segments partition the
\* predictions at or above the threshold into consecutive runs: each such
\* prediction is absorbed into exactly one closed segment, in input order,
\* and the segment still open when the input ends is closed too, so the last
\* positive prediction is in the last closed segment.
C21_RunsPartition ==
  (pc \in Grouped /\ outcome # "error") =>
    /\ positive_windows =
         SelectSeq(predictions, LAMBDA w : ProbOf(w) >= Threshold(config))
    /\ ClosedConfidences =
         [n \in 1..Len(positive_windows) |-> ProbOf(positive_windows[n])]
    /\ Flatten(seg_idx) = [n \in 1..Len(positive_windows) |-> n]
    /\ Len(seg_idx) = Len(segments)
    /\ \A i \in 1..Len(segments) :
         /\ seg_idx[i] # <<>>
         /\ Len(segments[i].confidences) = Len(seg_idx[i])
         /\ segments[i].start = StartOf(positive_windows[seg_idx[i][1]])
    /\ positive_windows # <<>> =>
         LET last == segments[Len(segments)]
         IN  /\ last.confidences[Len(last.confidences)] =
                  ProbOf(positive_windows[Len(positive_windows)])
             /\ seg_idx[Len(seg_idx)][Len(seg_idx[Len(seg_idx)])] =
                  Len(positive_windows)

\* Three positives in two runs, the last run being the one open at the end.
C21_Witness ==
  /\ pc = "filter"
  /\ Len(positive_windows) = 3
  /\ Len(predictions) = 3
  /\ seg_idx = <<<<1>>, <<2, 3>>>>
  /\ segments[2] = RunSegment(2, 3)

\* C22: the segment list depends only on the predictions at or above the
\* threshold (equality counts as positive): a second run on predictions that
\* differ from the first ones only below the threshold returns the same
\* segments, with the same starts, ends and confidences, so a negative
\* window between two positives does not split the segment they form.
C22_NegativesIgnored ==
  (pc = "done" /\ mode = "negatives") =>
    /\ outcome = "result"
    /\ result = first_result
    /\ detected_duration = first_duration

\* The second run has a negative window between two positives that merged,
\* one of them exactly at the threshold.
C22_Witness ==
  /\ pc = "done"
  /\ mode = "negatives"
  /\ Len(predictions) = 3
  /\ ProbOf(predictions[1]) = Threshold(config)
  /\ ProbOf(predictions[2]) < Threshold(config)
  /\ ProbOf(predictions[3]) >= Threshold(config)
  /\ Len(result) = 1
  /\ Len(res_idx[1]) = 2

(***************************************************************************)
(* Further properties of _run_inference.                                   *)
(***************************************************************************)
\* start / sr, in milliseconds
StartTime(start) == (start * 1000) \div SAMPLE_RATE

\* C23: the list _run_inference returns has exactly one Prediction per
\* window, in window order, and its start times are strictly ascending, on
\* the GPU (batches of 32) as on the CPU (batches of 1).
C23_OnePerWindowAscending ==
  pc = "inference_done" =>
    /\ Len(predictions) = Len(window_starts)
    /\ \A i \in 1..Len(predictions) :
         StartOf(predictions[i]) = StartTime(window_starts[i])
    /\ \A i \in 1..(Len(predictions) - 1) :
         /\ window_starts[i] < window_starts[i + 1]
         /\ StartOf(predictions[i]) < StartOf(predictions[i + 1])
    /\ \A i \in 1..Len(predictions) :
         StartOf(predictions[i]) = (i - 1) * config.hop_size_ms

\* A GPU run whose first batch is full and whose second is not.
C23_Witness ==
  /\ pc = "inference_done"
  /\ using_gpu
  /\ Len(predictions) = GpuBatchSize + 3
  /\ StartOf(predictions[GpuBatchSize + 3]) = (GpuBatchSize + 2) * 250

\* floor(H / transform_hop)
FramesPerHop(cfg) == HopSamples(cfg) \div HOP_LENGTH

\* frame_start * hop_length / sample_rate of window i, counted from 0, in ms
FrameAlignedTime(i, cfg) == StartTime(i * FramesPerHop(cfg) * HOP_LENGTH)

\* C24 as stated: the start time of window i is the time of the spectrogram
\* frame i * floor(H / transform_hop).
C24_FrameAligned ==
  pc = "inference_done" =>
    \A i \in 1..Len(predictions) :
      StartOf(predictions[i]) = FrameAlignedTime(i - 1, config)

\* C24: the start time of window i, counted from 0, is i * H / sample_rate
\* with H = int(hop_size_ms * sample_rate / 1000) samples: windows are cut
\* from the audio at multiples of H samples, which are not multiples of the
\* transform hop, and no frame index enters the start time.
C24_SampleAligned ==
  pc = "inference_done" =>
    \A i \in 1..Len(predictions) :
      /\ window_starts[i] = (i - 1) * HopSamples(config)
      /\ StartOf(predictions[i]) = StartTime((i - 1) * HopSamples(config))
      /\ i > 1 => StartOf(predictions[i]) > FrameAlignedTime(i - 1, config)

\* With the default hop of 4000 samples the second window starts at 0.25 s,
\* where frame 7 lies at 0.224 s.
C24_Witness ==
  /\ pc = "inference_done"
  /\ HopSamples(config) = 4000
  /\ FramesPerHop(config) = 7
  /\ Len(predictions) >= 2
  /\ StartOf(predictions[2]) = 250
  /\ FrameAlignedTime(1, config) = 224

\* The time frames of the windows of batch b.
FramesOf(b) == batch_shapes[b][4]

\* C25 as stated: every window handed to the classifier has exactly
\* floor(W / transform_hop) time frames.
C25_FloorFrames ==
  \A b \in 1..Len(batch_shapes) :
    FramesOf(b) = WindowSamples(config) \div HOP_LENGTH

\* C25: every window handed to the classifier has exactly
\* 1 + floor(W / transform_hop) time frames, 32 for the defaults W = 16000
\* and transform_hop = 512, in a batch of shape (batch, 1, 128, frames).
C25_FramesPerWindow ==
  /\ Len(batch_shapes) = Len(batches)
  /\ \A b \in 1..Len(batch_shapes) :
       /\ FramesOf(b) = 1 + (WindowSamples(config) \div HOP_LENGTH)
       /\ batch_shapes[b] = <<Len(batches[b]), 1, 128, FramesOf(b)>>
       /\ config.window_size_ms = 1000 => FramesOf(b) = 32

C25_Witness ==
  /\ pc = "inference_done"
  /\ WindowSamples(config) = 16000
  /\ using_gpu
  /\ Len(batch_shapes) = 1
  /\ batch_shapes[1] = <<32, 1, 128, 32>>

(***************************************************************************)
(* Further properties of the worker.                                       *)
(***************************************************************************)
\* The InferenceSession call of the except clause has raised.
FallbackFailed == raised.type = "InvalidProtobuf"

\* Nothing of _run_inference has happened yet.
NothingFramed ==
  /\ window_starts = <<>>
  /\ batches = <<>>
  /\ batch_shapes = <<>>
  /\ predictions = <<>>

SessionsBeforeInference ==
  /\ Len(session_inits) <= 2
  /\ Len(session_inits) = 2 => session_inits[2] = "cpu"
  /\ (\/ pc = "run" /\ ~has_run
      \/ pc \in {"read_input", "validate", "process", "video", "load_audio",
                  "load_model", "catch"}) => NothingFramed
  /\ Flatten(batches) = SubSeq(window_starts, 1, Len(Flatten(batches)))
  /\ Len(predictions) = Len(Flatten(batches))
  /\ FallbackFailed =>
       /\ Len(session_inits) = 2
       /\ pc \in {"catch", "exited"}
       /\ NothingFramed
       /\ ResultMessages = <<>>
       /\ pc = "exited" =>
            (exit_code = 1 /\ messages = <<CaughtMessage(raised)>>)

\* A step that creates a session is the model-loading step of process().
SessionStep ==
  session_inits' # session_inits =>
    \/ pc = "load_model" /\ session_inits = <<>> /\ NothingFramed
    \/ pc = "exited" /\ session_inits' = <<>>

\* C26: the classifier is re-initialised on the CPU at most once per
\* invocation, and only while loading the model, before any window is
\* framed, batched or classified; inside the inference loop every batch is
\* handed to the session once and none again; and when the fallback
\* initialisation fails itself the invocation ends with an error.
C26_FallbackOnceBeforeInference ==
  [](SessionsBeforeInference) /\ [][SessionStep]_vars

\* The CUDA session failed, the CPU one was created, and the run went on to
\* classify its windows and to return a result.
C26_Witness ==
  /\ pc = "exited"
  /\ exit_code = 0
  /\ session_inits = <<"cuda", "cpu">>
  /\ ~using_gpu
  /\ Len(batches) >= 10

\* A call of run() that is not the first of the process is about to start.
LaterCall == pc = "run" /\ has_run

\* What a step of the worker may do, given the single-run guard.
GuardStep ==
  /\ has_run => has_run'
  /\ (pc' = "read_input" /\ pc # "read_input") => (pc = "run" /\ ~has_run)
  /\ (pc' = "validate" /\ pc # "validate") => pc = "read_input"
  /\ (pc' = "process" /\ pc # "process") => pc = "validate"
  /\ (process_called' /\ ~process_called) => pc = "process"
  /\ messages' # messages =>
       (pc \in {"read_input", "catch", "done"} \/ messages' = <<>>)
  /\ (LaterCall /\ pc' # pc) =>
       /\ pc' = "exited"
       /\ exit_code' = 1
       /\ messages' = <<>>
       /\ progress' = <<>>
       /\ ~process_called'
       /\ ~audio_loaded'
       /\ session_inits' = <<>>
       /\ has_run'

\* C27: in one process only the first call of run() reads its input,
\* validates and calls process(); the flag it sets is never cleared, and
\* every later call, whatever its input, returns 1 without reading input,
\* without calling process() and without emitting a result or an error.
C27_SingleRun ==
  [][GuardStep]_vars

\* A later call has returned 1 in silence although its input was valid and
\* the first call of the process had failed validation.
C27_Witness ==
  /\ pc = "exited"
  /\ has_run
  /\ exit_code = 1
  /\ messages = <<>>
  /\ request = "ok"
  /\ ~process_called
  /\ output = NoOutput

(***************************************************************************)
(* Bounds of the segments.                                                 *)
(***************************************************************************)
Duration(seg) == seg.end - seg.start

WithinSignal ==
  \A i \in 1..Len(result) :
    /\ 0 <= result[i].start_seconds
    /\ result[i].start_seconds < result[i].end_seconds
    /\ result[i].end_seconds <= total_duration
    /\ result[i].end_seconds * SAMPLE_RATE <= audio_len * 1000

\* C29: for merge_gap_ms >= 0 and the predictions of _run_inference on a
\* signal of total duration D, every output segment satisfies
\* 0 <= start < end <= D, and the sum of the segment durations, before
\* rounding, does not exceed D.
C29_WithinTotalDuration ==
  MergeGap(config) >= 0 =>
    /\ WithinSignal
    /\ DetectedDuration(result) <= total_duration
    /\ detected_duration <= total_duration
    /\ pc \in {"assemble", "done"} /\ outcome # "error" =>
         detected_duration = DetectedDuration(result)

\* The segments are within the signal whatever the merge gap.
C29_AlwaysWithinSignal == WithinSignal

\* With a negative merge gap the windows of one region become overlapping
\* segments and their durations add up to more than the signal.
C29_AnyGapWithinTotal == DetectedDuration(result) <= total_duration

\* A run whose one segment covers the whole signal: end = D.
C29_Witness ==
  /\ pc = "exited"
  /\ exit_code = 0
  /\ MergeGap(config) >= 0
  /\ Len(result) = 1
  /\ result[1].start_seconds = 0
  /\ result[1].end_seconds = total_duration
  /\ detected_duration = total_duration

(***************************************************************************)
(* Properties of DownloadManager.                                          *)
(***************************************************************************)
\* Where run() stands between obtaining a non-empty video list and the
\* return of download_videos.
CancelWindow ==
  {"dm_check_cancelled", "dm_title", "dm_download", "dm_submit", "dm_collect",
   "dm_download_return"}

CancelledInWindow ==
  \/ cancel_at \in CancelWindow
  \/ cancel_at = "dm_check_videos" /\ videos > 0

\* C30 as stated: a cancel() that arrives after run() has a non-empty video
\* list and before download_videos has returned is never lost: nothing is
\* saved and run() returns the Cancelled error.
C30_CancelNeverLost ==
  CancelledInWindow =>
    /\ ~index_saved
    /\ ~playlist_saved
    /\ pc = "dm_returned" => run_result = "Cancelled"

\* What the code guarantees: a cancel() is honoured unless it arrives
\* between the check of run() and the reset at the head of download_videos.
C30_LostOnlyBeforeReset ==
  (CancelledInWindow /\ cancel_at \notin {"dm_title", "dm_download"}) =>
    /\ ~index_saved
    /\ ~playlist_saved
    /\ pc = "dm_returned" => run_result = "Cancelled"

\* A cancel() in that window is always lost.
C30_LostBeforeReset ==
  (cancel_at \in {"dm_title", "dm_download"} /\ pc = "dm_returned") =>
    (run_result = "success" /\ index_saved)

====
